---- MODULE Spec2Model ----
(***************************************************************************)
(* Employees_Attrition_Prediction: the prediction server (main.py), the    *)
(* record store server (test.py) and the launcher that supervises both     *)
(* (start_servers.py), each as a state machine.                            *)
(*                                                                         *)
(* Probabilities are written in hundredths: 0.8 is 80, 0.5 is 50, the      *)
(* closed interval [0,1] is 0..100.                                        *)
(***************************************************************************)
EXTENDS Integers, Sequences, FiniteSets, TLC

\* ------------------------------------------------------------------ bounds
\* /predict handlers that may be in flight at once (threadpool workers)
MaxInflight == 2
\* class ids the predictor may return are 0..MaxClassId
MaxClassId == 2
\* rows the external table may hold
MaxRows == 2

\* --------------------------------------------------------- program constants
HighThreshold == 80
MediumThreshold == 60
DefaultProbability == 50
StatusUnavailable == 503
StatusError == 500
StatusStoreError == 400

VARIABLES
    artifact,       \* the file xgb_attrition_pipeline.joblib: whether it can be loaded,
                    \* and how the predictor serialized in it behaves
    started,        \* main.py has been imported (load_model has run)
    pipeline,       \* main.pipeline: "None" or "Pipeline"
    model_loaded,   \* main.model_loaded
    handlers,       \* the /predict handlers in flight, one per worker
    response,       \* the last exchange main.py completed: request, predictor trace, response
    table,          \* the rows of the external "employees" table
    store_exchange, \* the last exchange test.py completed: request, store calls, response
    m_pc,           \* where start_servers.main is
    processes,      \* main's list `processes`, by server name
    spawned,        \* the servers start_server returned a Popen for
    exited,         \* the spawned servers whose process has ended (poll() is not None)
    it,             \* the index the running `for` holds into `processes`
    removals,       \* how often processes.remove was called, per server
    terminated,     \* the servers terminate() was called on
    killed          \* the servers kill() was called on

mainVars == <<artifact, started, pipeline, model_loaded, handlers, response>>
serverVars == <<artifact, started, pipeline, model_loaded, handlers, response, table, store_exchange>>
monitorVars == <<m_pc, processes, spawned, exited, it, removals, terminated, killed>>
vars == <<artifact, started, pipeline, model_loaded, handlers, response, table, store_exchange,
          m_pc, processes, spawned, exited, it, removals, terminated, killed>>

\* start_servers.py 56 and 64: the two servers, by the name they are tracked under
Servers == {"ML Prediction API", "Supabase API"}

\* start_servers.py 39-53: main has not run
MonitorNotRun ==
    /\ m_pc = "check_files"
    /\ processes = <<>>
    /\ spawned = {}
    /\ exited = {}
    /\ it = 0
    /\ removals = [s \in Servers |-> 0]
    /\ terminated = {}
    /\ killed = {}

\* ------------------------------------------------------------ request bodies
\* Two of the fields of EmployeeInput, an int and a str; all are required.
Fields == {"Age", "Gender"}
\* What the JSON body holds for a field: a value of the declared type, a value
\* that is not of that type, or nothing.
FieldStates == {"valid", "malformed", "missing"}
Bodies == [Fields -> FieldStates]
ValidBody == [f \in Fields |-> "valid"]

\* FastAPI builds `data: EmployeeInput` from the body before the handler runs;
\* every field is required and typed.
Validate_none(body) == TRUE
Validate(body) == \A f \in Fields : body[f] = "valid"

\* ------------------------------------------------------- the external predictor
Workers == 1..MaxInflight
ClassIds == 0..MaxClassId
Probs == {0, 50, 59, 60, 79, 80, 100}

\* what pipeline.predict(input_df)[0] may be: a numpy.int64 class id, or a
\* label that is no number
PredValues == [kind : {"int64"}, val : ClassIds] \cup {[kind |-> "str", val |-> 0]}
NoPred == [kind |-> "none", val |-> 0]

NotCalled == [called |-> FALSE, raised |-> FALSE, msg |-> "", value |-> NoPred]
PredictOutcomes ==
    {[called |-> TRUE, raised |-> TRUE, msg |-> "predict failed", value |-> NoPred]}
    \cup {[called |-> TRUE, raised |-> FALSE, msg |-> "", value |-> v] : v \in PredValues}

\* predict_proba(input_df)[0] of a binary classifier: [p0, p1]; the shorter rows
\* are the ones main.py 224 provides for
ProbaVectors == {<<>>} \cup {<<p>> : p \in Probs} \cup {<<p, q>> : p \in Probs, q \in Probs}
ProbaNotCalled == [called |-> FALSE, raised |-> FALSE, vec |-> <<>>]
ProbaOutcomes ==
    {[called |-> TRUE, raised |-> TRUE, vec |-> <<>>]}
    \cup {[called |-> TRUE, raised |-> FALSE, vec |-> v] : v \in ProbaVectors}

\* ------------------------------------------------------------ pure functions
\* int(pred)
PyInt(v) ==
    IF v.kind = "int64"
      THEN [raised |-> FALSE, msg |-> "", value |-> v.val]
      ELSE [raised |-> TRUE, msg |-> "invalid literal for int()", value |-> 0]

\* float(x) of a numpy float: the widening to a Python float keeps the value
PyFloat(x) == x

\* main.py 221-228: the probability taken from predict_proba's outcome
SelectProbability_first(o) ==
    IF o.raised \/ Len(o.vec) = 0 THEN DefaultProbability ELSE PyFloat(o.vec[1])
SelectProbability_sentinel(o) ==
    IF o.raised THEN -1
    ELSE IF Len(o.vec) > 1 THEN PyFloat(o.vec[2])
    ELSE IF Len(o.vec) = 1 THEN PyFloat(o.vec[1])
    ELSE -1
SelectProbability_certain(o) ==
    IF o.raised THEN 100
    ELSE IF Len(o.vec) > 1 THEN PyFloat(o.vec[2])
    ELSE IF Len(o.vec) = 1 THEN PyFloat(o.vec[1])
    ELSE 100
SelectProbability(o) ==
    IF o.raised THEN DefaultProbability
    ELSE IF Len(o.vec) > 1 THEN PyFloat(o.vec[2])
    ELSE IF Len(o.vec) = 1 THEN PyFloat(o.vec[1])
    ELSE DefaultProbability          \* pred_proba[0] raises IndexError, caught at 226

\* main.py 232
Label_byProbability(pred_int, probability) == IF probability >= DefaultProbability THEN "Yes" ELSE "No"
Label(pred_int, probability) == IF pred_int = 1 THEN "Yes" ELSE "No"

\* main.py 236-241
Confidence_strict(probability) ==
    IF probability > HighThreshold THEN "High"
    ELSE IF probability > MediumThreshold THEN "Medium"
    ELSE "Low"
Confidence(probability) ==
    IF probability >= HighThreshold THEN "High"
    ELSE IF probability >= MediumThreshold THEN "Medium"
    ELSE "Low"

\* The artifact on disk. The predictor in a loadable artifact is a function of
\* its input; the valid feature record has one outcome per artifact.
Artifacts ==
    [file : {"missing", "corrupt"}, predict : {NotCalled}, proba : {ProbaNotCalled}]
    \cup [file : {"valid"}, predict : PredictOutcomes, proba : ProbaOutcomes]

\* main.py 96-107: what load_model leaves in `pipeline` and what it returns
load_model_optimistic(art) ==
    IF art.file = "valid" THEN [pipeline |-> "Pipeline", ok |-> TRUE]
    ELSE [pipeline |-> "None", ok |-> TRUE]
load_model(art) ==
    IF art.file = "missing" THEN [pipeline |-> "None", ok |-> FALSE]       \* FileNotFoundError
    ELSE IF art.file = "corrupt" THEN [pipeline |-> "None", ok |-> FALSE]  \* joblib.load raises
    ELSE [pipeline |-> "Pipeline", ok |-> TRUE]

\* main.py 204 and 258
NotLoaded_never == FALSE
NotLoaded == ~model_loaded

\* main.py 205 and 259: the detail of the 503
UnavailableDetail_health(ep) == <<"Model failed to load">>
UnavailableDetail(ep) ==
    IF ep = "predict" THEN <<"Model not loaded. Please check /health endpoint.">>
    ELSE <<"Model not loaded">>

\* ----------------------------------------------------------------- exchanges
Idle == [pc |-> "idle", body |-> ValidBody, pred |-> NotCalled, nPredict |-> 0, nProba |-> 0]

Exchange(ep, status, detail) ==
    [ep |-> ep, status |-> status, detail |-> detail, flag |-> FALSE,
     body |-> ValidBody, label |-> "-", probability |-> -1, confidence |-> "-",
     pred |-> NotCalled, proba |-> ProbaNotCalled, nPredict |-> 0, nProba |-> 0]

NoResponse == Exchange("none", 0, <<>>)

\* main.py 249-250
PredictionError_swallow(x, msg) ==
    [x EXCEPT !.status = 200, !.label = "No", !.probability = DefaultProbability,
              !.confidence = "Low"]
PredictionError(x, msg) ==
    [x EXCEPT !.status = StatusError, !.detail = <<"Prediction error: ", msg>>]

\* main.py 243-247
PredictionResponse(x, label, probability, confidence) ==
    [x EXCEPT !.status = 200, !.label = label, !.probability = PyFloat(probability),
              !.confidence = confidence]

\* ------------------------------------------------------------------- test.py
\* the query parameters of /add_employee (test.py 23-34)
EmployeeArgs ==
    [name : {"Ann", "Bob"}, age : {41}, gender : {"Female"}, department : {"Sales"},
     job_role : {"Manager"}, years_at_company : {7}, monthly_income : {5000},
     overtime : BOOLEAN, job_satisfaction : {3}, perfomance_rating : {4},
     attrition_pred : {"Yes", "No"}, prediction_prob : {80}]

\* test.py 40-53: the row handed to insert
EmployeeData_relabel(a) ==
    [name |-> a.name, age |-> a.age, gender |-> a.gender, department |-> a.department,
     job_role |-> a.job_role, years_at_company |-> a.years_at_company,
     monthly_income |-> a.monthly_income, overtime |-> a.overtime,
     job_satisfaction |-> a.job_satisfaction, perfomance_rating |-> a.perfomance_rating,
     attrition_pred |-> IF a.prediction_prob >= DefaultProbability THEN "Yes" ELSE "No",
     prediction_prob |-> a.prediction_prob]
EmployeeData(a) ==
    [name |-> a.name, age |-> a.age, gender |-> a.gender, department |-> a.department,
     job_role |-> a.job_role, years_at_company |-> a.years_at_company,
     monthly_income |-> a.monthly_income, overtime |-> a.overtime,
     job_satisfaction |-> a.job_satisfaction, perfomance_rating |-> a.perfomance_rating,
     attrition_pred |-> a.attrition_pred, prediction_prob |-> a.prediction_prob]

\* what the external store may raise
StoreErrors == {"connection refused", "permission denied"}

\* one call on the supabase client, as the store answered it
StoreCall(op, data, raised, msg, result) ==
    [op |-> op, table |-> "employees", data |-> data, raised |-> raised, msg |-> msg,
     result |-> result]

NoStoreExchange ==
    [ep |-> "none", args |-> <<>>, calls |-> <<>>, status |-> 0, success |-> FALSE,
     data |-> <<>>, detail |-> ""]

\* test.py 56 and 69
StoreSuccess(ep, args, calls, data) ==
    [ep |-> ep, args |-> args, calls |-> calls, status |-> 200, success |-> TRUE,
     data |-> data, detail |-> ""]

\* test.py 58-59 and 70-71
StoreFailure(ep, args, calls, msg) ==
    [ep |-> ep, args |-> args, calls |-> calls, status |-> StatusStoreError,
     success |-> FALSE, data |-> <<>>, detail |-> msg]

\* test.py 21-59
add_employee(args) ==
    /\ LET data == EmployeeData(args)
       IN \/ \E msg \in StoreErrors :
               /\ store_exchange' = StoreFailure("add_employee", args,
                                         <<StoreCall("insert", data, TRUE, msg, <<>>)>>, msg)
               /\ UNCHANGED table
          \/ /\ Len(table) < MaxRows
             /\ LET stored == [id |-> Len(table) + 1, row |-> data]
                IN /\ table' = Append(table, stored)
                   /\ store_exchange' = StoreSuccess("add_employee", args,
                           <<StoreCall("insert", data, FALSE, "", <<stored>>)>>, <<stored>>)
    /\ UNCHANGED mainVars
    /\ UNCHANGED monitorVars

\* test.py 62-71
get_employees ==
    /\ \/ \E msg \in StoreErrors :
            store_exchange' = StoreFailure("employees", <<>>,
                                  <<StoreCall("select", "*", TRUE, msg, <<>>)>>, msg)
       \/ store_exchange' = StoreSuccess("employees", <<>>,
                                 <<StoreCall("select", "*", FALSE, "", table)>>, table)
    /\ UNCHANGED <<table, artifact, started, pipeline, model_loaded, handlers, response>>
    /\ UNCHANGED monitorVars

\* test.py 16-18
store_root ==
    /\ store_exchange' = [NoStoreExchange EXCEPT !.ep = "root", !.status = 200,
                             !.detail = "FastAPI + Supabase (Employees) connected"]
    /\ UNCHANGED <<table, artifact, started, pipeline, model_loaded, handlers, response>>
    /\ UNCHANGED monitorVars

\* ------------------------------------------------------------------- main.py
Init ==
    /\ artifact \in Artifacts
    /\ started = FALSE
    /\ pipeline = "None"
    /\ model_loaded = FALSE
    /\ handlers = [w \in Workers |-> Idle]
    /\ response = NoResponse
    /\ table = <<>>
    /\ store_exchange = NoStoreExchange
    /\ MonitorNotRun

\* main.py 110: model_loaded = load_model(), at import
Startup ==
    /\ ~started
    /\ started' = TRUE
    /\ pipeline' = load_model(artifact).pipeline
    /\ model_loaded' = load_model(artifact).ok
    /\ UNCHANGED <<artifact, handlers, response, table, store_exchange>>
    /\ UNCHANGED monitorVars

\* main.py 115-122
health_check ==
    /\ started
    /\ response' = [Exchange("health", 200,
                        IF model_loaded THEN <<"Model loaded successfully">>
                        ELSE <<"Model failed to load">>)
                    EXCEPT !.flag = model_loaded,
                           !.label = IF model_loaded THEN "healthy" ELSE "unhealthy"]
    /\ UNCHANGED <<artifact, started, pipeline, model_loaded, handlers, table, store_exchange>>
    /\ UNCHANGED monitorVars

\* main.py 127-194
get_sample_data ==
    /\ started
    /\ response' = Exchange("sample-data", 200, <<"high_risk_employee", "low_risk_employee">>)
    /\ UNCHANGED <<artifact, started, pipeline, model_loaded, handlers, table, store_exchange>>
    /\ UNCHANGED monitorVars

\* main.py 324-336
root ==
    /\ started
    /\ response' = [Exchange("root", 200, <<"Attrition Prediction API is running!">>)
                    EXCEPT !.flag = model_loaded]
    /\ UNCHANGED <<artifact, started, pipeline, model_loaded, handlers, table, store_exchange>>
    /\ UNCHANGED monitorVars

\* main.py 199-205: a POST /predict arrives at worker w
predict_attrition_enter(w, body) ==
    /\ started
    /\ handlers[w].pc = "idle"
    /\ IF ~Validate(body)
         THEN /\ response' = [Exchange("predict", 422, <<"validation error">>) EXCEPT !.body = body]
              /\ UNCHANGED handlers
       ELSE IF NotLoaded
         THEN /\ response' = [Exchange("predict", StatusUnavailable, UnavailableDetail("predict"))
                              EXCEPT !.body = body]
              /\ UNCHANGED handlers
       ELSE /\ handlers' = [handlers EXCEPT ![w] = [Idle EXCEPT !.pc = "entered", !.body = body]]
            /\ UNCHANGED response
    /\ UNCHANGED <<artifact, started, pipeline, model_loaded, table, store_exchange>>
    /\ UNCHANGED monitorVars

\* the call pipeline.predict(input_df)[0]
PredictCall ==
    IF pipeline = "None"
      THEN [called |-> FALSE, raised |-> TRUE,
            msg |-> "'NoneType' object has no attribute 'predict'", value |-> NoPred]
      ELSE artifact.predict

\* the call pipeline.predict_proba(input_df)[0]
ProbaCall ==
    IF pipeline = "None" THEN [called |-> FALSE, raised |-> TRUE, vec |-> <<>>]
    ELSE artifact.proba

Count(o) == IF o.called THEN 1 ELSE 0

\* main.py 207-218
predict_attrition_predict(w) ==
    /\ handlers[w].pc = "entered"
    /\ LET o == PredictCall
           h == handlers[w]
             x == [Exchange("predict", 0, <<>>) EXCEPT !.body = h.body, !.pred = o,
                                                     !.nPredict = h.nPredict + Count(o)]
         IN IF o.raised
              THEN /\ response' = PredictionError(x, o.msg)
                   /\ handlers' = [handlers EXCEPT ![w] = Idle]
              ELSE /\ handlers' = [handlers EXCEPT ![w] =
                          [h EXCEPT !.pc = "predicted", !.pred = o, !.nPredict = @ + Count(o)]]
                   /\ UNCHANGED response
    /\ UNCHANGED <<artifact, started, pipeline, model_loaded, table, store_exchange>>
    /\ UNCHANGED monitorVars

\* main.py 220-250
predict_attrition_finish(w) ==
    /\ handlers[w].pc = "predicted"
    /\ LET o == ProbaCall
           h == handlers[w]
             x == [Exchange("predict", 0, <<>>) EXCEPT !.body = h.body, !.pred = h.pred,
                       !.proba = o, !.nPredict = h.nPredict, !.nProba = h.nProba + Count(o)]
             probability == SelectProbability(o)
             pred_int == PyInt(h.pred.value)
         IN response' =
              IF pred_int.raised THEN PredictionError(x, pred_int.msg)
              ELSE PredictionResponse(x, Label(pred_int.value, probability), probability,
                                      Confidence(probability))
    /\ handlers' = [handlers EXCEPT ![w] = Idle]
    /\ UNCHANGED <<artifact, started, pipeline, model_loaded, table, store_exchange>>
    /\ UNCHANGED monitorVars

\* main.py 255-319
test_prediction ==
    /\ started
    /\ IF NotLoaded
         THEN response' = Exchange("test-prediction", StatusUnavailable,
                                   UnavailableDetail("test-prediction"))
       ELSE   LET o == PredictCall
                  q == ProbaCall
                  x == [Exchange("test-prediction", 200, <<>>) EXCEPT !.pred = o,
                                                                   !.nPredict = Count(o)]
              IN response' =
                   IF o.raised THEN [x EXCEPT !.detail = <<"error", o.msg>>]
                   ELSE IF q.raised
                     THEN [x EXCEPT !.detail = <<"error", "predict_proba failed">>,
                                    !.proba = q, !.nProba = Count(q)]
                   ELSE IF PyInt(o.value).raised
                     THEN [x EXCEPT !.detail = <<"error", PyInt(o.value).msg>>,
                                    !.proba = q, !.nProba = Count(q)]
                   ELSE [x EXCEPT !.proba = q, !.nProba = Count(q)]
    /\ UNCHANGED <<artifact, started, pipeline, model_loaded, handlers, table, store_exchange>>
    /\ UNCHANGED monitorVars

Next ==
    \/ Startup
    \/ health_check
    \/ get_sample_data
    \/ root
    \/ \E w \in Workers, body \in Bodies : predict_attrition_enter(w, body)
    \/ \E w \in Workers : predict_attrition_predict(w)
    \/ \E w \in Workers : predict_attrition_finish(w)
    \/ test_prediction

Spec == Init /\ [][Next]_vars

\* test.py runs as a process of its own (start_servers.py 64)
InitStore ==
    /\ artifact = [file |-> "missing", predict |-> NotCalled, proba |-> ProbaNotCalled]
    /\ started = FALSE
    /\ pipeline = "None"
    /\ model_loaded = FALSE
    /\ handlers = [w \in Workers |-> Idle]
    /\ response = NoResponse
    /\ table = <<>>
    /\ store_exchange = NoStoreExchange
    /\ MonitorNotRun

NextStore ==
    \/ \E args \in EmployeeArgs : add_employee(args)
    \/ get_employees
    \/ store_root

SpecStore == InitStore /\ [][NextStore]_vars

\* ---------------------------------------------------------- start_servers.py
\* the tuple (name, process) is in the list `processes`
Tracked(s) == \E i \in 1..Len(processes) : processes[i] = s

\* list.remove(x): the list without the first element equal to x
RECURSIVE ListRemove(_, _)
ListRemove(l, x) ==
    IF l = <<>> THEN <<>>
    ELSE IF Head(l) = x THEN Tail(l)
    ELSE <<Head(l)>> \o ListRemove(Tail(l), x)

\* start_servers.py 93: process.poll() is not None
HasExited_any(s) == TRUE
HasExited(s) == s \in exited

\* start_servers.py 14-37: start_server returns a Popen, or None when Popen raised
start_server(s, ok) ==
    /\ processes' = IF ok THEN Append(processes, s) ELSE processes
    /\ spawned' = IF ok THEN spawned \cup {s} ELSE spawned

InitMonitor ==
    /\ artifact = [file |-> "missing", predict |-> NotCalled, proba |-> ProbaNotCalled]
    /\ started = FALSE
    /\ pipeline = "None"
    /\ model_loaded = FALSE
    /\ handlers = [w \in Workers |-> Idle]
    /\ response = NoResponse
    /\ table = <<>>
    /\ store_exchange = NoStoreExchange
    /\ MonitorNotRun

\* start_servers.py 43-50
main_check_files ==
    /\ m_pc = "check_files"
    /\ \E main_py \in BOOLEAN, test_py \in BOOLEAN :
         m_pc' = IF main_py /\ test_py THEN "start_ml" ELSE "returned"
    /\ UNCHANGED <<processes, spawned, exited, it, removals, terminated, killed>>
    /\ UNCHANGED serverVars

\* start_servers.py 55-61
main_start_ml ==
    /\ m_pc = "start_ml"
    /\ \E ok \in BOOLEAN : start_server("ML Prediction API", ok)
    /\ m_pc' = "start_supabase"
    /\ UNCHANGED <<exited, it, removals, terminated, killed>>
    /\ UNCHANGED serverVars

\* start_servers.py 63-84
main_start_supabase ==
    /\ m_pc = "start_supabase"
    /\ \E ok \in BOOLEAN : start_server("Supabase API", ok)
    /\ m_pc' = IF processes' = <<>> THEN "returned" ELSE "sleep"
    /\ UNCHANGED <<exited, it, removals, terminated, killed>>
    /\ UNCHANGED serverVars

\* a server's process ends, whenever it does
server_exits(s) ==
    /\ s \in spawned \ exited
    /\ exited' = exited \cup {s}
    /\ UNCHANGED <<m_pc, processes, spawned, it, removals, terminated, killed>>
    /\ UNCHANGED serverVars

\* start_servers.py 88-92: sleep(1) returns and the `for` takes its iterator
main_sleep ==
    /\ m_pc = "sleep"
    /\ m_pc' = "poll"
    /\ it' = 0
    /\ UNCHANGED <<processes, spawned, exited, removals, terminated, killed>>
    /\ UNCHANGED serverVars

\* start_servers.py 92-95: one turn of the `for`: the iterator yields
\* processes[it] and moves on; the body removes the server if it has ended
main_poll ==
    /\ m_pc = "poll"
    /\ it < Len(processes)
    /\ LET s == processes[it + 1]
       IN IF HasExited(s)
            THEN /\ processes' = ListRemove(processes, s)
                 /\ removals' = [removals EXCEPT ![s] = @ + 1]
            ELSE UNCHANGED <<processes, removals>>
    /\ it' = it + 1
    /\ UNCHANGED <<m_pc, spawned, exited, terminated, killed>>
    /\ UNCHANGED serverVars

\* start_servers.py 92 and 97-99: the iterator is exhausted; break on an empty list
main_poll_end ==
    /\ m_pc = "poll"
    /\ it >= Len(processes)
    /\ m_pc' = IF processes = <<>> THEN "done" ELSE "sleep"
    /\ UNCHANGED <<processes, spawned, exited, it, removals, terminated, killed>>
    /\ UNCHANGED serverVars

\* start_servers.py 101-105: Ctrl+C anywhere inside the try
main_interrupt ==
    /\ m_pc \in {"sleep", "poll"}
    /\ m_pc' = "terminate"
    /\ it' = 0
    /\ UNCHANGED <<processes, spawned, exited, removals, terminated, killed>>
    /\ UNCHANGED serverVars

\* start_servers.py 105-110: one turn of the terminate loop
main_terminate ==
    /\ m_pc = "terminate"
    /\ it < Len(processes)
    /\ terminated' = terminated \cup {processes[it + 1]}
    /\ it' = it + 1
    /\ UNCHANGED <<m_pc, processes, spawned, exited, removals, killed>>
    /\ UNCHANGED serverVars

\* start_servers.py 105 and 112-116: the terminate loop ends, sleep(2), the kill loop starts
main_terminate_end ==
    /\ m_pc = "terminate"
    /\ it >= Len(processes)
    /\ m_pc' = "kill"
    /\ it' = 0
    /\ UNCHANGED <<processes, spawned, exited, removals, terminated, killed>>
    /\ UNCHANGED serverVars

\* start_servers.py 116-122: one turn of the kill loop
main_kill ==
    /\ m_pc = "kill"
    /\ it < Len(processes)
    /\ LET s == processes[it + 1]
       IN IF ~HasExited(s)
            THEN /\ killed' = killed \cup {s}
                 /\ exited' = exited \cup {s}
            ELSE UNCHANGED <<killed, exited>>
    /\ it' = it + 1
    /\ UNCHANGED <<m_pc, processes, spawned, removals, terminated>>
    /\ UNCHANGED serverVars

\* start_servers.py 116 and 124
main_kill_end ==
    /\ m_pc = "kill"
    /\ it >= Len(processes)
    /\ m_pc' = "stopped"
    /\ UNCHANGED <<processes, spawned, exited, it, removals, terminated, killed>>
    /\ UNCHANGED serverVars

\* the steps of the monitor loop, which the launcher's one thread keeps taking
MonitorLoop == main_sleep \/ main_poll \/ main_poll_end

NextMonitor ==
    \/ main_check_files
    \/ main_start_ml
    \/ main_start_supabase
    \/ \E s \in Servers : server_exits(s)
    \/ main_sleep
    \/ main_poll
    \/ main_poll_end
    \/ main_interrupt
    \/ main_terminate
    \/ main_terminate_end
    \/ main_kill
    \/ main_kill_end

SpecMonitor == InitMonitor /\ [][NextMonitor]_vars /\ WF_vars(MonitorLoop)

\* ===================================================================== claims
\* a body with a malformed or missing field
HasBadField(body) == \E f \in Fields : body[f] \in {"malformed", "missing"}

\* the last exchange is a POST /predict
IsPredict == response.ep = "predict"
\* the last exchange is a POST /predict answered 200
IsPrediction == response.ep = "predict" /\ response.status = 200

\* ------------------------------------------------------------------------ C1
\* C1 as stated: with the model not loaded, every POST /predict, whatever its
\* body, is answered 503 and the predictor is not invoked for it.
C1_Original ==
    (started /\ ~model_loaded /\ IsPredict) =>
        /\ response.status = 503
        /\ response.nPredict = 0
        /\ response.nProba = 0

\* C1 as amended: with the model not loaded, every POST /predict whose body
\* passes validation is answered 503; no /predict handler gets past the loaded
\* check and predict / predict_proba are invoked for no /predict request.
C1_UnloadedPredictIs503 ==
    (started /\ ~model_loaded) =>
        /\ \A w \in Workers : handlers[w].pc = "idle"
        /\ IsPredict =>
             /\ response.nPredict = 0 /\ response.nProba = 0
             /\ ~response.pred.called /\ ~response.proba.called
             /\ ~HasBadField(response.body) => response.status = 503

C1_Witness ==
    /\ started /\ ~model_loaded /\ IsPredict
    /\ ~HasBadField(response.body)
    /\ response.status = 503

\* ------------------------------------------------------------------------ C2
\* C2: in every 200 answer of /predict the confidence is High iff
\* probability >= 0.8, Medium iff 0.6 <= probability < 0.8, Low iff
\* probability < 0.6.
C2_ConfidenceIsThresholdTable ==
    IsPrediction =>
        LET p == response.probability
            c == response.confidence
        IN /\ c \in {"High", "Medium", "Low"}
           /\ (c = "High") <=> (p >= 80)
           /\ (c = "Medium") <=> (p >= 60 /\ p < 80)
           /\ (c = "Low") <=> (p < 60)

C2_Witness ==
    IsPrediction /\ response.probability = 80 /\ response.confidence = "High"

\* ------------------------------------------------------------------------ C3
\* C3: in every 200 answer of /predict the label is "Yes" iff the class that
\* predictor.predict returned is 1, and "No" for every other class, whatever the
\* probability.
C3_LabelIsClassOne ==
    IsPrediction =>
        /\ response.label \in {"Yes", "No"}
        /\ response.pred.called /\ ~response.pred.raised
        /\ (response.label = "Yes") <=>
             (response.pred.value.kind = "int64" /\ response.pred.value.val = 1)

C3_Witness ==
    /\ IsPrediction
    /\ response.pred.value.val = 1
    /\ response.label = "Yes"
    /\ response.probability = 0

\* ------------------------------------------------------------------------ C4
\* an exception was raised while the handler of the last /predict ran: by
\* predict, by int(pred), by predict_proba, by the indexing of an empty row
PredictRaised == response.pred.raised
DerivationRaised == response.pred.called /\ ~response.pred.raised /\ response.pred.value.kind = "str"
ProbaRaised == response.proba.called /\ response.proba.raised
IndexRaised ==
    response.proba.called /\ ~response.proba.raised /\ Len(response.proba.vec) = 0

\* C4 as stated: with the model loaded, any exception raised while a /predict
\* request is handled surfaces as a 500 carrying the message, never as a 200,
\* and the predictor is not invoked again.
C4_Original ==
    (model_loaded /\ IsPredict /\ (PredictRaised \/ DerivationRaised \/ ProbaRaised)) =>
        /\ response.status = 500
        /\ response.nPredict <= 1 /\ response.nProba <= 1

\* C4 as amended: with the model loaded, an exception raised by
\* predictor.predict or by the derivation of the label surfaces as a 500
\* carrying "Prediction error: " and the underlying message, never as a 200; an
\* exception raised while the probability is obtained is recovered into the
\* default probability instead; predict and predict_proba are each invoked at
\* most once for a request.
C4_ErrorsSurfaceAs500 ==
    (model_loaded /\ IsPredict /\ ~HasBadField(response.body)) =>
        /\ response.nPredict <= 1 /\ response.nProba <= 1
        /\ PredictRaised =>
             /\ response.status = 500
             /\ response.detail = <<"Prediction error: ", response.pred.msg>>
             /\ response.nProba = 0
        /\ DerivationRaised =>
             /\ response.status = 500
             /\ response.detail = <<"Prediction error: ", "invalid literal for int()">>
        /\ (response.status = 200) <=> ~(PredictRaised \/ DerivationRaised)
        /\ ((ProbaRaised \/ IndexRaised) /\ ~DerivationRaised) =>
             (response.status = 200 /\ response.probability = 50)

C4_Witness ==
    /\ model_loaded /\ IsPredict
    /\ DerivationRaised
    /\ response.status = 500
    /\ response.nPredict = 1 /\ response.nProba = 1

\* ------------------------------------------------------------------------ C5
\* C5 as stated: the probability of a 200 answer is element 1 of the vector
\* predict_proba returned when there is one, and 0.5 otherwise.
C5_Original ==
    IsPrediction =>
        response.probability =
            IF ~response.proba.raised /\ Len(response.proba.vec) >= 2
              THEN response.proba.vec[2]
              ELSE 50

\* C5 as amended: the probability of a 200 answer is element 1 of the vector
\* predict_proba returned when the vector has more than one element, the only
\* element of a one-element vector, and 0.5 when predict_proba raised or
\* returned an empty vector.
C5_ProbabilitySource ==
    IsPrediction =>
        response.probability =
            IF response.proba.raised \/ ~response.proba.called THEN 50
            ELSE IF Len(response.proba.vec) >= 2 THEN response.proba.vec[2]
            ELSE IF Len(response.proba.vec) = 1 THEN response.proba.vec[1]
            ELSE 50

C5_Witness ==
    /\ IsPrediction
    /\ Len(response.proba.vec) = 2
    /\ response.proba.vec[1] # response.proba.vec[2]
    /\ response.probability = response.proba.vec[2]

\* ------------------------------------------------------------------------ C6
\* C6: a /predict request whose body has a malformed or missing field is
\* answered with a client error and never reaches the handler: predict and
\* predict_proba are not invoked for it, whether the model is loaded or not.
C6_BadBodyNeverReachesPredictor ==
    /\ \A w \in Workers : handlers[w].pc # "idle" => ~HasBadField(handlers[w].body)
    /\ (IsPredict /\ HasBadField(response.body)) =>
          /\ response.status \in 400..499
          /\ response.nPredict = 0 /\ response.nProba = 0
          /\ ~response.pred.called /\ ~response.proba.called

C6_Witness ==
    /\ model_loaded /\ IsPredict
    /\ HasBadField(response.body)
    /\ response.status = 422

\* ------------------------------------------------------------------------ C7
IsPredictionRequest(x) == x.ep \in {"predict", "test-prediction"}

\* C7 as stated: while the model is not loaded, any two prediction requests
\* (/predict, /test-prediction) get the same status and the same message.
C7_Original ==
    [][(started /\ ~model_loaded /\ IsPredictionRequest(response)
                /\ IsPredictionRequest(response')) =>
         (response'.status = response.status /\ response'.detail = response.detail)]_vars

\* C7 as amended: while the model is not loaded, every /test-prediction and
\* every /predict whose body passes validation is answered 503, with a message
\* fixed per endpoint: "Model not loaded. Please check /health endpoint." for
\* /predict and "Model not loaded" for /test-prediction.
C7_UnavailableIsFixedPerEndpoint ==
    (started /\ ~model_loaded) =>
        /\ (IsPredict /\ ~HasBadField(response.body)) =>
             /\ response.status = 503
             /\ response.detail = <<"Model not loaded. Please check /health endpoint.">>
        /\ response.ep = "test-prediction" =>
             /\ response.status = 503
             /\ response.detail = <<"Model not loaded">>

C7_Witness ==
    /\ started /\ ~model_loaded
    /\ response.ep = "test-prediction"
    /\ response.status = 503

\* ------------------------------------------------------------------------ C8
\* C8: model_loaded and pipeline are written by load_model at startup alone: a
\* missing or unloadable file leaves the process serving with model_loaded
\* false, no step after startup changes either, and /health reports
\* model_loaded false exactly when the startup load failed.
C8_ModelStateSetOnceAtStartup ==
    /\ [](started =>
            /\ model_loaded = (artifact.file = "valid")
            /\ pipeline = (IF artifact.file = "valid" THEN "Pipeline" ELSE "None")
            /\ response.ep = "health" => response.flag = (artifact.file = "valid"))
    /\ [][started => (started' /\ model_loaded' = model_loaded /\ pipeline' = pipeline)]_vars

C8_Witness ==
    /\ started
    /\ artifact.file = "corrupt"
    /\ response.ep = "health"
    /\ response.flag = FALSE
    /\ response.label = "unhealthy"

\* ------------------------------------------------------------------------ C9
\* C9: the probability of every 200 answer of /predict lies in [0,1], by each
\* path it is obtained: element 1, the only element, the default.
C9_ProbabilityInUnitInterval ==
    IsPrediction => (response.probability >= 0 /\ response.probability <= 100)

C9_Witness ==
    /\ IsPrediction
    /\ Len(response.proba.vec) = 1
    /\ response.probability = 100

\* ----------------------------------------------------------------------- C10
\* C10: /add_employee issues exactly one insert carrying the caller's field
\* values unchanged and /employees exactly one select-all; if the store raises,
\* the answer is a failure carrying the message and no data, otherwise it is the
\* store's data unmodified.
C10_StoreIsPassThrough ==
    LET x == store_exchange
    IN x.ep \in {"add_employee", "employees"} =>
         /\ Len(x.calls) = 1
         /\ x.calls[1].table = "employees"
         /\ x.ep = "add_employee" =>
              /\ x.calls[1].op = "insert"
              /\ DOMAIN x.calls[1].data = DOMAIN x.args
              /\ \A k \in DOMAIN x.args : x.calls[1].data[k] = x.args[k]
         /\ x.ep = "employees" => (x.calls[1].op = "select" /\ x.calls[1].data = "*")
         /\ x.calls[1].raised =>
              /\ x.status \in 400..599
              /\ ~x.success
              /\ x.detail = x.calls[1].msg
              /\ x.data = <<>>
         /\ ~x.calls[1].raised =>
              /\ x.status = 200
              /\ x.success
              /\ x.data = x.calls[1].result

C10_Witness ==
    /\ store_exchange.ep = "add_employee"
    /\ store_exchange.calls[1].raised
    /\ store_exchange.status = 400
    /\ store_exchange.args.attrition_pred = "No"
    /\ Len(table) = 1

\* ----------------------------------------------------------------------- C11
\* C11: whenever /predict falls back to the default probability (predict_proba
\* raised, or its row had no element), the 200 answer carries probability 0.5
\* and confidence Low, never Medium or High, and its label is still the one
\* derived from predictor.predict; these are the three fields an answer to a
\* real probability of 0.5 carries for the same class.
C11_FallbackIsLowConfidence ==
    (IsPrediction /\ (ProbaRaised \/ IndexRaised)) =>
        /\ response.probability = 50
        /\ response.confidence = "Low"
        /\ response.pred.called /\ ~response.pred.raised
        /\ response.label = (IF response.pred.value.val = 1 THEN "Yes" ELSE "No")

C11_Witness ==
    /\ IsPrediction
    /\ ProbaRaised
    /\ response.probability = 50
    /\ response.confidence = "Low"
    /\ response.label = "Yes"

\* ----------------------------------------------------------------------- C12
\* the monitor loop of start_servers.main is running
InLoop == m_pc \in {"sleep", "poll"}
\* a keyboard interrupt has ended the loop
Interrupted == m_pc \in {"terminate", "kill", "stopped"}

\* C12: in the monitor loop a tracked server leaves the list only after it has
\* exited, and by one call of remove; a server is removed at most once, and it
\* is untracked exactly if it was removed; the loop breaks only on an empty
\* list and goes back to sleep only on a non-empty one; unless a keyboard
\* interrupt ends the loop first, every tracked server that has exited is
\* eventually removed (also the one the iterator skips after a removal) and an
\* empty list eventually ends the loop; after a keyboard interrupt terminate()
\* has been called on every server still tracked.
C12_MonitorLoop ==
    /\ [](/\ \A s \in Servers :
               /\ removals[s] <= 1
               /\ (removals[s] = 1) <=> (s \in spawned /\ ~Tracked(s))
               /\ Tracked(s) => s \in spawned
          /\ m_pc = "done" => processes = <<>>
          /\ m_pc = "sleep" => processes # <<>>
          /\ m_pc \in {"kill", "stopped"} => \A s \in Servers : Tracked(s) => s \in terminated)
    /\ [][\A s \in Servers :
            (Tracked(s) /\ ~Tracked(s)') =>
                (InLoop /\ s \in exited /\ removals'[s] = removals[s] + 1)]_vars
    /\ \A s \in Servers :
         (InLoop /\ Tracked(s) /\ s \in exited) ~> (~Tracked(s) \/ Interrupted)
    /\ (InLoop /\ processes = <<>>) ~> (m_pc = "done" \/ Interrupted)

\* both servers ended between two polls: the first was removed, and the
\* iterator, now past the end of the shortened list, skips the second
C12_Witness ==
    /\ m_pc = "poll"
    /\ it = 1
    /\ processes = <<"Supabase API">>
    /\ exited = Servers
    /\ removals["ML Prediction API"] = 1
    /\ removals["Supabase API"] = 0

====
